---- MODULE Spec2Model ----
(***************************************************************************)
(* Model of the arbitrage bot of src/unnamed/part_000 (the revision of     *)
(* index.js that has the missed-second-leg recovery): start-up, the timer  *)
(* armed by setInterval, and tradeCycle as an async function whose         *)
(* invocations are suspended at the exchange calls.                        *)
(*                                                                         *)
(* One action is one turn of the event loop: the reply (or failure) of one *)
(* exchange call, or one timer tick, followed by everything the resumed    *)
(* code does up to the next await of an exchange call, returns to awaiting *)
(* callers and calls of nested cycles included.                            *)
(*                                                                         *)
(* Times are in milliseconds (intervalSeconds holds 1000 x the seconds of  *)
(* the source), so that the calibration stays in the integers.             *)
(*                                                                         *)
(* The exchange client is outside the repository: each of its calls either *)
(* throws or returns an object (a truthy value), as its interface states.  *)
(* ev records what the environment delivered in the last step; it is read  *)
(* by the properties only.                                                 *)
(***************************************************************************)
EXTENDS Integers, Sequences, FiniteSets, TLC

\* ------------------------------------------------------------ bounds
MaxHelpers == 1      \* helper credentials configured: 0..MaxHelpers
MaxIntervalK == 3    \* configured intervals: up to MaxIntervalK * 500 ms

\* ------------------------------------------------- configuration, inputs
MinProfitPercent == 1
Prices == {100, 101}
IntervalChoices == {0, 250} \cup {500 * k : k \in 1..MaxIntervalK}
RateLimits == {[windowMs |-> 1000, maxRequests |-> 4]}
Amount == 1
Balances == {0, 2}
\* config.amount as written in config.json: a numeral, or text that is no number.
AmountChoices == {"1", "abc"}

\* The rate limits and configured intervals (ms) the calibration is checked on:
\* values on which the double arithmetic of checkInterval agrees with the
\* exact arithmetic of the model.
CalibRateLimits == {[windowMs |-> 1000, maxRequests |-> 10],
                    [windowMs |-> 1000, maxRequests |-> 4],
                    [windowMs |-> 60000, maxRequests |-> 30]}
CalibIntervals == {0, 200, 500, 1000, 4000}

\* The configuration the operator wrote with the missed-second-leg recovery
\* switched off.  config is destructured without such a field: no code reads it.
ExecuteMissedSecondLeg == FALSE

VARIABLES
  config,          \* the fields read from config.js
  phase,           \* where start() is: init, checkBalances, checkInterval, trading, stopped
  exitStatus,      \* running | zero (nothing pending) | nonzero (process.exit(1))
  intervalSeconds, \* ms
  burstMax,
  burstsLeft,
  pollerIndex,
  lastTrade,       \* 0, or 1 for a timestamp Date.now() gave
  armed,           \* setInterval(tradeCycle, intervalMs) has been called
  tasks,           \* per slot: the stack of suspended tradeCycle frames, root first
  ev,              \* the last step's input: the reply's outcome, the trade
                   \* history it carried, what the resumed cycle returned
  chain            \* per slot, the history of the burst loop that is running:
                   \* the balance it was entered with, the chained cycles it
                   \* has started; kept by SpecChain only

vars == <<config, phase, exitStatus, intervalSeconds, burstMax, burstsLeft,
          pollerIndex, lastTrade, armed, tasks, ev, chain>>

\* The invocations of tradeCycle by startTrading and the timer that are
\* suspended at once: the first cycle or a tick, and one tick that overtakes it.
Slots == {1, 2}

\* ------------------------------------------------------------ values
NoId == <<0, 0, "none">>
NoOffer == [offerId |-> NoId, efPrice |-> 0]
NoReq == [call |-> "none", op |-> "none", offerId |-> NoId, via |-> 0]
NoEv == [out |-> "none", hist |-> {}, ret |-> "none"]
NoChain == [start |-> 0, count |-> 0]

Min(a, b) == IF a < b THEN a ELSE b

\* A JavaScript value used as a condition.
Truthy(v) == v # "undefined"

\* isNaN(amount) and Number(amount) for the amounts of AmountChoices.
IsNaN(a) == a # "1"
ToNumber(a) == Amount

\* percent(value1, value2) >= minProfitPercent, for value1 > 0:
\* (value2 / value1 - 1) * 100 >= minProfitPercent.
ProfitAtLeast(value1, value2, minPercent) ==
  (value2 - value1) * 100 >= minPercent * value1

\* The exchange's identifier of the offer a frame got for op: unique among
\* the offers of the frames alive.
OfferId(slot, level, op) == <<slot, level, op>>

OfferReq(op, via) == [call |-> "offer", op |-> op, offerId |-> NoId, via |-> via]
ConfirmReq(id) == [call |-> "confirmOffer", op |-> "none", offerId |-> id, via |-> 0]
TradesReq(op) == [call |-> "trades", op |-> op, offerId |-> NoId, via |-> 0]

\* ------------------------------------------------------------ tradeCycle
\* The state a step works on: one task's stack and the globals the cycle writes.
Machine(slot) ==
  [slot |-> slot, stack |-> tasks[slot], pollerIndex |-> pollerIndex,
   burstsLeft |-> burstsLeft, lastTrade |-> lastTrade, ret |-> "none",
   fatal |-> FALSE]

Top(m) == m.stack[Len(m.stack)]
SetTop(m, f) == [m EXCEPT !.stack[Len(m.stack)] = f]
Await(m, pc, req) == SetTop(m, [Top(m) EXCEPT !.pc = pc, !.req = req])

IsMain_Always(bursting, idx) == TRUE
\* isMain of a cycle entered with the rotation index idx.
IsMain(bursting, idx) == bursting \/ idx = 0

\* Entry of tradeCycle(bursting) up to its first await: the buy quote.
Enter(m, bursting) ==
  LET isMain == IsMain(bursting, m.pollerIndex)
      poller == IF bursting \/ m.pollerIndex = 0 THEN 0 ELSE m.pollerIndex
      f == [bursting |-> bursting, isMain |-> isMain, poller |-> poller,
            pc |-> "buy", req |-> OfferReq("buy", poller),
            buyOffer |-> NoOffer, sellOffer |-> NoOffer,
            firstLeg |-> "undefined", secondLeg |-> "undefined"]
  IN [m EXCEPT !.stack = Append(@, f)]

FirstOffer(f) == IF config.initialBuy THEN f.buyOffer ELSE f.sellOffer
SecondOffer(f) == IF config.initialBuy THEN f.sellOffer ELSE f.buyOffer
SecondOp == IF config.initialBuy THEN "sell" ELSE "buy"

RECURSIVE Return(_, _), BurstLoop(_)

\* while (burstsLeft > 0) { --burstsLeft; if (!await tradeCycle(true)) break; }
\* return true;   entered at the loop's test.
BurstLoop(m) ==
  IF m.burstsLeft > 0
  THEN Enter(Await([m EXCEPT !.burstsLeft = @ - 1], "burst", NoReq), TRUE)
  ELSE Return(m, "true")

\* The top frame returns v: the task ends, or the caller awaiting it goes on.
Return(m, v) ==
  LET rest == SubSeq(m.stack, 1, Len(m.stack) - 1)
      m1 == [m EXCEPT !.stack = rest,
                      !.ret = IF m.ret = "none" THEN v ELSE m.ret]
  IN IF rest = <<>> THEN m1
     ELSE IF rest[Len(rest)].pc = "recheck" THEN Return(m1, "false")
     ELSE IF v # "true" THEN Return(m1, "true")
     ELSE BurstLoop(m1)

\* Both legs done (or simulated): lastTrade, then the burst chain.
Success(m) ==
  LET m1 == [m EXCEPT !.lastTrade = 1]
  IN IF config.burst /\ ~Top(m1).bursting /\ m1.burstsLeft # 0
     THEN BurstLoop(m1)
     ELSE Return(m1, "true")

\* A helper cycle that saw the profit.
Revert_NoReset(m) ==
  IF m.burstsLeft > 0
  THEN Enter(Await([m EXCEPT !.burstsLeft = @ - 1], "recheck", NoReq), FALSE)
  ELSE Return(m, "false")
Revert_Unguarded(m) ==
  Enter(Await([m EXCEPT !.pollerIndex = 0, !.burstsLeft = @ - 1],
              "recheck", NoReq), FALSE)
Revert(m) ==
  IF m.burstsLeft > 0
  THEN Enter(Await([m EXCEPT !.pollerIndex = 0, !.burstsLeft = @ - 1],
                   "recheck", NoReq), FALSE)
  ELSE Return(m, "false")

AfterFetch_NoSimulation(m, fetched) ==
  LET top == Top(m)
      m1 == [m EXCEPT !.pollerIndex = (@ + 1) % (config.helperKeys + 1)]
      profitable == fetched /\ ProfitAtLeast(top.buyOffer.efPrice,
                                             top.sellOffer.efPrice,
                                             MinProfitPercent)
  IN IF profitable
     THEN IF ~top.isMain THEN Revert(m1)
          ELSE Await(m1, "confirm1", ConfirmReq(FirstOffer(top).offerId))
     ELSE Return(IF ~top.bursting
                 THEN [m1 EXCEPT !.burstsLeft = Min(burstMax, @ + 1)]
                 ELSE m1, "false")

\* The code after the quotes: the finally clause, then the evaluation.
\* fetched is FALSE when a quote request threw (profit stays undefined).
AfterFetch(m, fetched) ==
  LET top == Top(m)
      m1 == [m EXCEPT !.pollerIndex = (@ + 1) % (config.helperKeys + 1)]
      profitable == fetched /\ ProfitAtLeast(top.buyOffer.efPrice,
                                             top.sellOffer.efPrice,
                                             MinProfitPercent)
  IN IF profitable
     THEN IF ~top.isMain THEN Revert(m1)
          ELSE IF config.simulation THEN Success(m1)
          ELSE Await(m1, "confirm1", ConfirmReq(FirstOffer(top).offerId))
     ELSE Return(IF ~top.bursting
                 THEN [m1 EXCEPT !.burstsLeft = Min(burstMax, @ + 1)]
                 ELSE m1, "false")

ProfitOf(f, price) ==
  IF ProfitAtLeast(f.buyOffer.efPrice, price, MinProfitPercent)
  THEN "high" ELSE "low"


\* ------------------------------------------------------------ confirmation
\* process.exit(1) after the fatal message; sleep(500) calls resolve() at once
\* (setTimeout(resolve(), ms)), so nothing runs between the message and the exit.
FatalExit_Continues(m) == Return(m, "false")
FatalExit(m) == [Await(m, "fatal", NoReq) EXCEPT !.fatal = TRUE]

\* The catch clause of the confirmations: recovery when only the first leg is known.
CatchConfirm_Exits(m) == [Await(m, "fatal", NoReq) EXCEPT !.fatal = TRUE]
CatchConfirm_Always(m) == Await(m, "trades", TradesReq(SecondOp))
CatchConfirm(m) ==
  IF Truthy(Top(m).firstLeg) /\ ~Truthy(Top(m).secondLeg)
  THEN Await(m, "trades", TradesReq(SecondOp))
  ELSE Return(m, "false")

\* firstLeg = await bc.confirmOffer(firstOffer) returned or threw.
AfterConfirm1_NoAwait(m, ok) ==
  Await(SetTop(m, [Top(m) EXCEPT !.firstLeg = IF ok THEN "confirmed" ELSE @]),
        "confirm2", ConfirmReq(SecondOffer(Top(m)).offerId))
AfterConfirm1(m, ok) ==
  IF ok
  THEN Await(SetTop(m, [Top(m) EXCEPT !.firstLeg = "confirmed"]),
             "confirm2", ConfirmReq(SecondOffer(Top(m)).offerId))
  ELSE CatchConfirm(m)

\* secondLeg = await bc.confirmOffer(secondOffer) returned or threw.
AfterConfirm2(m, ok) ==
  IF ok
  THEN Success(SetTop(m, [Top(m) EXCEPT !.secondLeg = "confirmed"]))
  ELSE CatchConfirm(m)

\* ------------------------------------------------------------ recovery
\* _.find(trades, t => t.offerId === secondOffer.offerId)
FindTrade_Never(trades, id) == FALSE
FindTrade(trades, id) == \E t \in trades : t.offerId = id

\* What bc.trades({op}) can answer for a frame: its second offer executed or
\* not, another trade of the same operation present or not.
Histories(slot, f) ==
  SUBSET {[offerId |-> SecondOffer(f).offerId, op |-> SecondOp],
          [offerId |-> OfferId(0, 1, SecondOp), op |-> SecondOp]}

AfterTrades(m, ok, trades) ==
  IF ~ok THEN FatalExit(m)
  ELSE IF FindTrade(trades, SecondOffer(Top(m)).offerId)
  THEN Return(m, "undefined")
  ELSE Await(m, "fixOffer", OfferReq(SecondOp, 0))

\* secondLeg = await bc.offer({op: secondOp}) returned or threw.
AfterFixOffer(m, ok) ==
  IF ~ok THEN FatalExit(m)
  ELSE Await(SetTop(m, [Top(m) EXCEPT !.secondLeg = "offer"]), "fixConfirm",
             ConfirmReq(OfferId(m.slot, Len(m.stack), "fix")))

AfterFixConfirm_GivesUp(m, ok) == Return(m, "false")
\* await bc.confirmOffer({offerId: secondLeg.offerId}) returned or threw.
AfterFixConfirm(m, ok) ==
  IF ~ok THEN FatalExit(m) ELSE Return(m, "false")

\* ------------------------------------------------------------ steps
\* The configurations with the interval among intervals; apiKey is whether
\* config.json gives the credentials.
Configs(intervals) ==
  [apiKey : BOOLEAN, amount : AmountChoices,
   initialBuy : BOOLEAN, simulation : BOOLEAN, burst : BOOLEAN,
   helperKeys : 0..MaxHelpers, intervalSeconds : intervals]

InitWith(intervals) ==
  /\ config \in Configs(intervals)
  /\ phase = "init"
  /\ exitStatus = "running"
  /\ intervalSeconds = config.intervalSeconds
  /\ burstMax = 0
  /\ burstsLeft = 0
  /\ pollerIndex = 0
  /\ lastTrade = 0
  /\ armed = FALSE
  /\ tasks = [s \in Slots |-> <<>>]
  /\ ev = NoEv
  /\ chain = [s \in Slots |-> NoChain]

Init == InitWith(IntervalChoices)

Event(out, hist, ret) == [out |-> out, hist |-> hist, ret |-> ret]

\* start() caught the error why and logged it: nothing is pending, the
\* process ends.
Stop(why) ==
  /\ phase' = "stopped"
  /\ exitStatus' = "zero"
  /\ ev' = Event(why, {}, "none")
  /\ UNCHANGED <<config, intervalSeconds, burstMax, burstsLeft, pollerIndex,
                 lastTrade, armed, tasks>>

\* start(): init(), then checkBalances() up to await bc.balance().
Start ==
  /\ phase = "init"
  /\ IF ~config.apiKey THEN Stop("noKey")
     ELSE IF IsNaN(config.amount) THEN Stop("badAmount")
     ELSE /\ phase' = "checkBalances"
          /\ ev' = Event("start", {}, "none")
          /\ UNCHANGED <<config, exitStatus, intervalSeconds, burstMax,
                         burstsLeft, pollerIndex, lastTrade, armed, tasks>>

\* bc.balance() answered: the amount check, then checkInterval() up to bc.meta().
BalanceReply ==
  /\ phase = "checkBalances"
  /\ \E ok \in BOOLEAN, bal \in Balances :
       IF ~ok THEN Stop("fail")
       ELSE IF ToNumber(config.amount) > bal THEN Stop("lowBalance")
       ELSE /\ phase' = "checkInterval"
            /\ ev' = Event("ok", {}, "none")
            /\ UNCHANGED <<config, exitStatus, intervalSeconds, burstMax,
                           burstsLeft, pollerIndex, lastTrade, armed, tasks>>

\* Write a machine back: the task, the globals, the exit, and startTrading's
\* setInterval once its awaited first cycle has returned.
Commit(m, out, hist) ==
  /\ tasks' = [tasks EXCEPT ![m.slot] = m.stack]
  /\ pollerIndex' = m.pollerIndex
  /\ burstsLeft' = m.burstsLeft
  /\ lastTrade' = m.lastTrade
  /\ exitStatus' = IF m.fatal THEN "nonzero" ELSE exitStatus
  /\ armed' = (armed \/ m.stack = <<>>)
  /\ ev' = Event(out, hist, m.ret)
  /\ UNCHANGED <<config, phase, intervalSeconds, burstMax>>

\* intervalSeconds < minInterval for a configured interval (ms), with
\* minInterval = 2 * windowMs / maxRequests / 1000 seconds.
TooSmall_Never(interval, rl) == FALSE
TooSmall(interval, rl) ==
  interval # 0 /\ interval * rl.maxRequests < 2 * rl.windowMs

\* Math.floor((intervalSeconds - minInterval) / minInterval / 4 * maxRequests)
BurstMaxOf_NoQuarter(interval, rl) ==
  ((interval * rl.maxRequests - 2 * rl.windowMs) * rl.maxRequests)
    \div (2 * rl.windowMs)
BurstMaxOf(interval, rl) ==
  ((interval * rl.maxRequests - 2 * rl.windowMs) * rl.maxRequests)
    \div (8 * rl.windowMs)

\* bc.meta() answered, its rate limit among limits: the rest of
\* checkInterval(), then startTrading() up to the first await inside its
\* await tradeCycle().
MetaReplyFrom(limits) ==
  /\ phase = "checkInterval"
  /\ \E ok \in BOOLEAN, rl \in limits :
       LET above == intervalSeconds # 0
                    /\ intervalSeconds * rl.maxRequests > 2 * rl.windowMs
           bm == IF above THEN BurstMaxOf(intervalSeconds, rl) ELSE burstMax
           m == Enter([slot |-> 1, stack |-> <<>>, pollerIndex |-> pollerIndex,
                       burstsLeft |-> bm, lastTrade |-> lastTrade,
                       ret |-> "none", fatal |-> FALSE], FALSE)
       IN IF ~ok THEN Stop("fail")
          ELSE IF TooSmall(intervalSeconds, rl) THEN Stop("tooSmall")
          ELSE /\ intervalSeconds' = IF intervalSeconds = 0
                                     THEN (2 * rl.windowMs) \div rl.maxRequests
                                     ELSE intervalSeconds
               /\ burstMax' = bm
               /\ burstsLeft' = bm
               /\ phase' = "trading"
               /\ tasks' = [tasks EXCEPT ![1] = m.stack]
               /\ ev' = Event("ok", {rl}, "none")
               /\ UNCHANGED <<config, exitStatus, pollerIndex, lastTrade, armed>>

MetaReply == MetaReplyFrom(RateLimits)

Outcome(ok) == IF ok THEN "ok" ELSE "fail"

Live == phase = "trading" /\ exitStatus = "running"

Waiting(slot, pc) ==
  /\ Live
  /\ tasks[slot] # <<>>
  /\ tasks[slot][Len(tasks[slot])].pc = pc

\* The interval timer calls tradeCycle() (no argument) in a free slot.
TimerTick ==
  /\ Live /\ armed
  /\ \E slot \in Slots :
       /\ tasks[slot] = <<>>
       /\ \A s \in Slots : s < slot => tasks[s] # <<>>
       /\ Commit([Enter(Machine(slot), FALSE) EXCEPT !.ret = "none"],
                 "tick", {})

\* poller.offer({op: 'buy'}) answered.
BuyReply(slot) ==
  /\ Waiting(slot, "buy")
  /\ \E ok \in BOOLEAN, price \in Prices :
       LET m == Machine(slot)
           f == Top(m)
       IN IF ok
          THEN Commit(SetTop(m, [f EXCEPT
                   !.buyOffer = [offerId |-> OfferId(slot, Len(m.stack), "buy"),
                                 efPrice |-> price],
                   !.pc = "sell", !.req = OfferReq("sell", f.poller)]),
                 "ok", {})
          ELSE Commit(AfterFetch(m, FALSE), "fail", {})

\* poller.offer({op: 'sell'}) answered.
SellReply(slot) ==
  /\ Waiting(slot, "sell")
  /\ \E ok \in BOOLEAN, price \in Prices :
       LET m == Machine(slot)
           f == Top(m)
       IN IF ok
          THEN Commit(AfterFetch(SetTop(m, [f EXCEPT
                   !.sellOffer = [offerId |-> OfferId(slot, Len(m.stack), "sell"),
                                  efPrice |-> price]]), TRUE),
                 ProfitOf(f, price), {})
          ELSE Commit(AfterFetch(m, FALSE), "fail", {})

Confirm1Reply(slot) ==
  /\ Waiting(slot, "confirm1")
  /\ \E ok \in BOOLEAN :
       Commit(AfterConfirm1(Machine(slot), ok), Outcome(ok), {})

Confirm2Reply(slot) ==
  /\ Waiting(slot, "confirm2")
  /\ \E ok \in BOOLEAN :
       Commit(AfterConfirm2(Machine(slot), ok), Outcome(ok), {})

TradesReply(slot) ==
  /\ Waiting(slot, "trades")
  /\ \/ Commit(AfterTrades(Machine(slot), FALSE, {}), "fail", {})
     \/ \E trades \in Histories(slot, Top(Machine(slot))) :
          Commit(AfterTrades(Machine(slot), TRUE, trades), "ok", trades)

FixOfferReply(slot) ==
  /\ Waiting(slot, "fixOffer")
  /\ \E ok \in BOOLEAN :
       Commit(AfterFixOffer(Machine(slot), ok), Outcome(ok), {})

FixConfirmReply(slot) ==
  /\ Waiting(slot, "fixConfirm")
  /\ \E ok \in BOOLEAN :
       Commit(AfterFixConfirm(Machine(slot), ok), Outcome(ok), {})

Next ==
  \/ Start /\ UNCHANGED chain
  \/ BalanceReply /\ UNCHANGED chain
  \/ MetaReply /\ UNCHANGED chain
  \/ TimerTick /\ UNCHANGED chain
  \/ \E slot \in Slots : BuyReply(slot) /\ UNCHANGED chain
  \/ \E slot \in Slots : SellReply(slot) /\ UNCHANGED chain
  \/ \E slot \in Slots : Confirm1Reply(slot) /\ UNCHANGED chain
  \/ \E slot \in Slots : Confirm2Reply(slot) /\ UNCHANGED chain
  \/ \E slot \in Slots : TradesReply(slot) /\ UNCHANGED chain
  \/ \E slot \in Slots : FixOfferReply(slot) /\ UNCHANGED chain
  \/ \E slot \in Slots : FixConfirmReply(slot) /\ UNCHANGED chain

Spec == Init /\ [][Next]_vars

\* The program with an exchange that never quotes a profit: every cycle ends
\* at its evaluation (or at a failed quote request), so only the start-up,
\* the timer and the quote replies can act.
NextQuiet ==
  \/ Start /\ UNCHANGED chain
  \/ BalanceReply /\ UNCHANGED chain
  \/ MetaReply /\ UNCHANGED chain
  \/ TimerTick /\ UNCHANGED chain
  \/ \E slot \in Slots : BuyReply(slot) /\ UNCHANGED chain
  \/ \E slot \in Slots : SellReply(slot) /\ ev'.out # "high" /\ UNCHANGED chain

SpecQuiet == Init /\ [][NextQuiet]_vars

\* The step started a chained (bursting) cycle in the task of slot s: the
\* body of the while loop of the burst chain ran.
ChainedStarted(s) ==
  /\ tasks'[s] # tasks[s] /\ tasks'[s] # <<>>
  /\ tasks'[s][Len(tasks'[s])].bursting
  /\ tasks'[s][Len(tasks'[s])].pc = "buy"

\* A cycle of the task is inside its burst loop.
InChain(task) == \E i \in 1..Len(task) : task[i].pc = "burst"

\* The program with the burst loops observed: chain[s].start is the balance
\* the loop of slot s was entered with, chain[s].count the chained cycles it
\* has started, counted up to burstMax + 1.
Observe ==
  chain' = [s \in Slots |->
              IF ~InChain(tasks'[s]) THEN NoChain
              ELSE IF ~ChainedStarted(s) THEN chain[s]
              ELSE IF InChain(tasks[s])
              THEN [chain[s] EXCEPT !.count = Min(burstMax + 1, @ + 1)]
              ELSE [start |-> burstsLeft, count |-> 1]]

NextChain ==
  \/ Start /\ Observe
  \/ BalanceReply /\ Observe
  \/ MetaReply /\ Observe
  \/ TimerTick /\ Observe
  \/ \E slot \in Slots : BuyReply(slot) /\ Observe
  \/ \E slot \in Slots : SellReply(slot) /\ Observe
  \/ \E slot \in Slots : Confirm1Reply(slot) /\ Observe
  \/ \E slot \in Slots : Confirm2Reply(slot) /\ Observe
  \/ \E slot \in Slots : TradesReply(slot) /\ Observe
  \/ \E slot \in Slots : FixOfferReply(slot) /\ Observe
  \/ \E slot \in Slots : FixConfirmReply(slot) /\ Observe

SpecChain == Init /\ [][NextChain]_vars

\* The calibration on the rate limits of CalibRateLimits and the intervals of
\* CalibIntervals, followed by the trading of an exchange that never quotes a
\* profit.
InitCalib == InitWith(CalibIntervals)

NextCalib ==
  \/ Start /\ UNCHANGED chain
  \/ BalanceReply /\ UNCHANGED chain
  \/ MetaReplyFrom(CalibRateLimits) /\ UNCHANGED chain
  \/ TimerTick /\ UNCHANGED chain
  \/ \E slot \in Slots : BuyReply(slot) /\ UNCHANGED chain
  \/ \E slot \in Slots : SellReply(slot) /\ ev'.out # "high" /\ UNCHANGED chain

SpecCalib == InitCalib /\ [][NextCalib]_vars

\* Every exchange call eventually returns or throws: the reply a suspended
\* cycle awaits is eventually delivered.  Nothing is assumed of the timer.
Replies(slot) ==
  \/ BuyReply(slot) \/ SellReply(slot)
  \/ Confirm1Reply(slot) \/ Confirm2Reply(slot)
  \/ TradesReply(slot) \/ FixOfferReply(slot) \/ FixConfirmReply(slot)

SpecFair == Spec /\ \A slot \in Slots : WF_vars(Replies(slot) /\ UNCHANGED chain)


\* ------------------------------------------------------------ properties
Frames == UNION {{tasks[s][i] : i \in 1..Len(tasks[s])} : s \in Slots}
InFlight == {s \in Slots : tasks[s] # <<>>}

\* The step resumed (or started) the task of slot s.
Acted(s) == tasks'[s] # tasks[s]
\* Before the step the task of slot s was suspended at pc.
At(s, pc) == tasks[s] # <<>> /\ tasks[s][Len(tasks[s])].pc = pc
FramesAfter(s) == {tasks'[s][i] : i \in 1..Len(tasks'[s])}
\* The cycle that was resumed has returned in the step.
Returned(s) == Len(tasks'[s]) < Len(tasks[s])

Leg1Id(f) == IF config.initialBuy THEN f.buyOffer.offerId ELSE f.sellOffer.offerId
Leg2Id(f) == IF config.initialBuy THEN f.sellOffer.offerId ELSE f.buyOffer.offerId
RecoveryPcs == {"trades", "fixOffer", "fixConfirm", "fatal"}

\* C1: no two trade cycles are in flight at the same time (the timer never
\* enters tradeCycle while an earlier invocation is suspended).
C1_NoOverlap == Cardinality(InFlight) <= 1

\* C2: the confirmation of leg 2 is in flight only with the confirmation of
\* leg 1 of the same cycle returned; leg 1 is the buy offer when initialBuy and
\* the sell offer otherwise; when the leg-1 confirmation throws, the cycle
\* returns without any confirmation issued.
C2_LegOrder ==
  /\ [](\A f \in Frames :
          /\ f.pc = "confirm1" =>
               f.req.call = "confirmOffer" /\ f.req.offerId = Leg1Id(f)
          /\ f.pc = "confirm2" =>
               f.req.call = "confirmOffer" /\ f.req.offerId = Leg2Id(f)
          /\ (f.req.call = "confirmOffer" /\ f.req.offerId # Leg1Id(f)) =>
               f.firstLeg = "confirmed")
  /\ [][\A s \in Slots :
          (At(s, "confirm1") /\ Acted(s) /\ ev'.out = "fail") =>
             /\ Returned(s)
             /\ \A f \in FramesAfter(s) : f.req.call # "confirmOffer"]_vars

C2_Witness ==
  \E f \in Frames : f.pc = "confirm2" /\ f.firstLeg = "confirmed"
                    /\ f.req.offerId = Leg2Id(f)

\* C3: a confirmOffer is in flight only from a cycle that fetched its quotes
\* through the primary credential; a cycle that polled through a helper is
\* only ever fetching quotes or awaiting the primary re-check.
C3_OnlyPrimaryConfirms ==
  \A f \in Frames :
    /\ f.req.call = "confirmOffer" => f.poller = 0 /\ f.req.via = 0
    /\ f.poller # 0 => f.pc \in {"buy", "sell", "recheck"}

C3_Witness ==
  \E s \in Slots :
    /\ Len(tasks[s]) >= 2
    /\ tasks[s][1].poller # 0
    /\ tasks[s][2].req.call = "confirmOffer"
    /\ pollerIndex # 0

\* C4: 0 <= burstsLeft <= burstMax in every reachable state.
C4_BurstBounds == 0 <= burstsLeft /\ burstsLeft <= burstMax

C4_Witness ==
  /\ burstMax = 2 /\ burstsLeft = 0
  /\ \E f \in Frames : f.pc = "recheck"
  /\ \E f \in Frames : f.pc = "burst"
  /\ Cardinality(InFlight) = 2

\* A helper cycle got its sell quote in the step and the profit reached the
\* threshold.
HelperSawProfit(s) ==
  /\ At(s, "sell") /\ Acted(s) /\ ev'.out = "high"
  /\ tasks[s][Len(tasks[s])].poller # 0

\* The primary re-check of the helper cycle of slot s has been started.
FollowUp(s) ==
  /\ Len(tasks'[s]) = Len(tasks[s]) + 1
  /\ tasks'[s][Len(tasks[s])].pc = "recheck"
  /\ tasks'[s][Len(tasks'[s])].poller = 0
  /\ tasks'[s][Len(tasks'[s])].req = OfferReq("buy", 0)
  /\ pollerIndex' = 0

C6_RecoveryEntry ==
  /\ [](\A f \in Frames :
          /\ f.pc \in RecoveryPcs => f.firstLeg = "confirmed"
          /\ f.pc = "trades" => f.secondLeg = "undefined")
  /\ [][\A s \in Slots :
          /\ (At(s, "confirm2") /\ Acted(s) /\ ev'.out = "fail") =>
                /\ ~Returned(s)
                /\ tasks'[s][Len(tasks'[s])].pc = "trades"
          /\ (At(s, "confirm2") /\ Acted(s) /\ ev'.out = "ok") =>
                \A f \in FramesAfter(s) : f.pc \notin RecoveryPcs
          /\ (At(s, "confirm1") /\ Acted(s) /\ ev'.out = "fail") =>
                /\ Returned(s) /\ ev'.ret = "false"
                /\ exitStatus' = "running"
                /\ \A f \in FramesAfter(s) :
                     f.pc \notin RecoveryPcs /\ f.req.call # "trades"
          /\ (Acted(s) /\ \E f \in FramesAfter(s) : f.pc = "trades") =>
                At(s, "confirm2") /\ ev'.out = "fail"]_vars

C6_Witness ==
  /\ ev.out = "fail"
  /\ \E f \in Frames : f.pc = "trades" /\ f.firstLeg = "confirmed"

\* C7: in recovery the trade history of the second leg's operation is queried
\* before any corrective offer is requested; when it holds a trade with the
\* second offer's identifier the cycle returns with no corrective offer, no
\* confirmation and no exit.
C7_SettledLegTwo ==
  /\ [](\A f \in Frames :
          f.pc = "trades" =>
            f.req = TradesReq(IF config.initialBuy THEN "sell" ELSE "buy"))
  /\ [][\A s \in Slots :
          /\ (Acted(s) /\ \E f \in FramesAfter(s) : f.pc = "fixOffer") =>
                At(s, "trades") /\ ev'.out = "ok"
          /\ (At(s, "trades") /\ Acted(s) /\ ev'.out = "ok"
              /\ \E t \in ev'.hist : t.offerId = Leg2Id(tasks[s][Len(tasks[s])])) =>
                /\ Returned(s)
                /\ exitStatus' = "running"
                /\ \A f \in FramesAfter(s) :
                     /\ f.pc \notin RecoveryPcs
                     /\ f.req.call # "confirmOffer"]_vars

C7_Witness ==
  /\ ev.out = "ok" /\ ev.ret = "undefined" /\ ev.hist # {}
  /\ exitStatus = "running"

\* C8: in recovery, with no matching trade in the history and the configuration
\* flag disallowing the automatic fix, no corrective offer is requested.
C8_FlagRespected ==
  [][\A s \in Slots :
       (At(s, "trades") /\ Acted(s) /\ ev'.out = "ok"
        /\ ~ExecuteMissedSecondLeg
        /\ ~\E t \in ev'.hist : t.offerId = Leg2Id(tasks[s][Len(tasks[s])])) =>
          \A f \in FramesAfter(s) : f.req.call # "offer" \/ f.pc # "fixOffer"]_vars

\* C9: when the fresh quote of recovery or its confirmation fails the process
\* exits with a non-zero status, and no step is taken after the exit.
C9_FatalExit ==
  /\ [][\A s \in Slots :
          ((At(s, "fixOffer") \/ At(s, "fixConfirm")) /\ Acted(s)
           /\ ev'.out = "fail") => exitStatus' = "nonzero"]_vars
  /\ [][exitStatus # "nonzero"]_vars

C9_Witness ==
  /\ exitStatus = "nonzero"
  /\ \E f \in Frames : f.pc = "fatal" /\ f.secondLeg = "offer"

\* A reply of kind pc failed in the step.
Failed(s, pc) == At(s, pc) /\ Acted(s) /\ ev'.out = "fail"

\* Failures outside recovery stay in their cycle: no exit, the timer stays
\* armed (or is armed when the first cycle returns).
Contained(s, pcs) ==
  (\E pc \in pcs : Failed(s, pc)) =>
     /\ exitStatus' = "running"
     /\ phase' = "trading"
     /\ armed' = (armed \/ tasks'[s] = <<>>)

\* C10 as stated: with the timer armed, the process is terminated only when
\* the corrective trade (fresh quote, its confirmation) failed; a failed quote
\* fetch, leg-1 confirm, leg-2 confirm or trade-history query is contained in
\* its cycle.
C10_Original ==
  [][\A s \in Slots :
       /\ (armed /\ Acted(s) /\ exitStatus' = "nonzero") =>
             Failed(s, "fixOffer") \/ Failed(s, "fixConfirm")
       /\ Contained(s, {"buy", "sell", "confirm1", "confirm2", "trades"})]_vars

\* C10 amended: the process is terminated only when a step of recovery failed
\* (the trade-history query, the fresh quote or its confirmation); a failed
\* quote fetch, leg-1 confirm or leg-2 confirm is contained in its cycle.
C10_Amended ==
  [][\A s \in Slots :
       /\ (Acted(s) /\ exitStatus' = "nonzero") =>
             Failed(s, "trades") \/ Failed(s, "fixOffer") \/ Failed(s, "fixConfirm")
       /\ Failed(s, "trades") => exitStatus' = "nonzero"
       /\ Contained(s, {"buy", "sell", "confirm1", "confirm2"})]_vars

C10_Witness ==
  /\ exitStatus = "nonzero"
  /\ \E f \in Frames : f.pc = "fatal" /\ f.secondLeg = "undefined"
  /\ armed

\* A cycle whose leg-1 confirmation returned and whose leg-2 confirmation or
\* recovery is pending.
HalfDone(f) ==
  /\ f.firstLeg = "confirmed"
  /\ f.pc \in {"confirm2", "trades", "fixOffer", "fixConfirm"}

\* C11: when the process has terminated on the fatal recovery path, no other
\* trade cycle is left between its leg-1 confirmation and the end of its leg-2
\* confirmation or recovery.
C11_ExitsAlone ==
  exitStatus = "nonzero" => \A f \in Frames : ~HalfDone(f)

\* A quote request of the cycle of slot s failed in the step.
FetchFailed(s) == Failed(s, "buy") \/ Failed(s, "sell")

\* C12: a cycle whose buy or sell quote request fails returns false with no
\* confirmation issued, the rotation index advanced by one modulo the number
\* of credentials, and burstsLeft, burstMax and lastTrade unchanged.
C12_FetchFailure ==
  [][\A s \in Slots :
       FetchFailed(s) =>
         /\ Returned(s) /\ ev'.ret = "false"
         /\ \A f \in FramesAfter(s) : f.req.call # "confirmOffer"
         /\ pollerIndex' = (pollerIndex + 1) % (config.helperKeys + 1)
         /\ burstsLeft' = burstsLeft
         /\ burstMax' = burstMax
         /\ lastTrade' = lastTrade]_vars

\* C13: with no cycle profitable, the cycles the scheduler starts poll through
\* the credentials in rotation: the first through credential 0, and a cycle
\* started right after another one through the credential that follows the
\* other's (k mod N, then (k + 1) mod N).
C13_Rotation ==
  [][/\ (phase = "checkInterval" /\ phase' = "trading") => tasks'[1][1].poller = 0
     /\ (ev.out = "tick" /\ ev'.out = "tick") =>
           \E s, t \in Slots :
             /\ s # t /\ tasks[s] # <<>> /\ tasks[t] = <<>>
             /\ tasks'[t][1].poller =
                  (tasks[s][1].poller + 1) % (config.helperKeys + 1)]_vars

\* C14: in simulation mode no cycle ever has a confirmOffer in flight or a leg
\* recorded, and neither the recovery nor the fatal exit is reached.
C14_SimulationIsDry ==
  config.simulation =>
    /\ \A f \in Frames :
         /\ f.req.call # "confirmOffer"
         /\ f.pc \notin {"confirm1", "confirm2"} \cup RecoveryPcs
         /\ f.firstLeg = "undefined" /\ f.secondLeg = "undefined"
    /\ exitStatus # "nonzero"

\* A simulated trade has been reported and its burst chain is running.
C14_Witness ==
  /\ config.simulation /\ lastTrade = 1
  /\ \E f \in Frames : f.pc = "burst"
  /\ \E f \in Frames : f.bursting

\* A chained cycle of the task of slot s returned a falsy value in the step.
ChainedFailed(s) ==
  /\ Acted(s) /\ tasks[s] # <<>>
  /\ tasks[s][Len(tasks[s])].bursting
  /\ ev'.ret \in {"false", "undefined"}

\* C15: a non-bursting cycle that traded with the burst balance at r > 0 runs
\* at most r chained cycles, the balance goes down by exactly one per chained
\* cycle started, and the chain ends (its cycle returns) in the step in which
\* a chained cycle returns without a trade.
C15_Chain ==
  /\ [](\A s \in Slots :
          InChain(tasks[s]) =>
            chain[s].start > 0 /\ chain[s].count <= chain[s].start)
  /\ [][\A s \in Slots :
          /\ ChainedStarted(s) => burstsLeft' = burstsLeft - 1
          /\ ChainedFailed(s) => ~InChain(tasks'[s])]_vars

\* The quote requests a trading cycle and the cycles of its burst chain have
\* issued through the primary credential: they run back to back, with nothing
\* but the exchange's replies between them.
ChainQuotes(s) ==
  IF InChain(tasks[s])
  THEN 2 + 2 * (chain[s].count - 1)
         + (IF tasks[s][Len(tasks[s])].pc = "buy" THEN 1 ELSE 2)
  ELSE 0

\* C16: the quote requests issued through one credential with no delay
\* between them never exceed maxRequests, the rate limit of a window.
C16_WithinRateLimit ==
  \A s \in Slots, rl \in RateLimits : ChainQuotes(s) <= rl.maxRequests

\* The step is the end of checkInterval(): the calibration.
Calibrated == phase = "checkInterval" /\ phase' = "trading"

\* b = floor((interval - minInterval) / minInterval / 4 * maxRequests) with
\* minInterval = 2 * windowMs / maxRequests (ms), cleared of its divisions.
IsBurstFloor(b, interval, rl) ==
  LET headroom == (interval * rl.maxRequests - 2 * rl.windowMs) * rl.maxRequests
  IN /\ 8 * rl.windowMs * b <= headroom
     /\ headroom < 8 * rl.windowMs * (b + 1)

C18_NoStartBelowMin ==
  (\E rl \in RateLimits :
      /\ config.intervalSeconds # 0
      /\ config.intervalSeconds * rl.maxRequests < 2 * rl.windowMs) =>
    /\ \A s \in Slots : tasks[s] = <<>>
    /\ ~armed
    /\ phase # "trading"
    /\ ev.out \notin {"tick", "low", "high"} /\ ev.ret = "none"
    /\ lastTrade = 0

\* checkInterval() has rejected the interval.
C18_Witness ==
  /\ phase = "stopped" /\ ev.out = "tooSmall"
  /\ config.intervalSeconds = 250

\* C19: the process that stopped on a start-up validation failure (missing
\* credentials, invalid amount, amount above the balance, interval below the
\* minimum) has a non-zero exit status.
C19_ValidationExit ==
  (phase = "stopped" /\ ev.out \in {"noKey", "badAmount", "lowBalance", "tooSmall"})
    => exitStatus = "nonzero"

\* The second leg of the cycle that returned from pc in the step is matched:
\* its confirmation returned, the trade history held a trade with its offer,
\* or the corrective offer of the opposite operation was confirmed.
Matched(f) ==
  \/ f.secondLeg = "confirmed"
  \/ f.pc = "confirm2" /\ ev'.out = "ok"
  \/ /\ f.pc = "trades" /\ ev'.out = "ok"
     /\ \E t \in ev'.hist : t.offerId = Leg2Id(f)
  \/ /\ f.pc = "fixConfirm" /\ ev'.out = "ok"
     /\ f.secondLeg = "offer" /\ f.req.call = "confirmOffer"

\* The frames of the task of slot s that returned in the step.
Popped(s) ==
  {tasks[s][i] : i \in {k \in 1..Len(tasks[s]) :
                          \/ k > Len(tasks'[s])
                          \/ k = Len(tasks[s]) /\ ev'.ret # "none"}}

\* C20: a cycle that returns with the process still running and its first
\* leg confirmed has its second leg matched; the corrective offer is
\* requested for the operation of the second leg.
C20_NoHalfTrade ==
  /\ [][\A s \in Slots :
          (Acted(s) /\ exitStatus' = "running") =>
             \A f \in Popped(s) : f.firstLeg = "confirmed" => Matched(f)]_vars
  /\ [](\A f \in Frames :
          f.pc = "fixOffer" =>
            f.req = OfferReq(IF config.initialBuy THEN "sell" ELSE "buy", 0))

\* The corrective offer has been confirmed and its cycle has returned.
C20_Witness ==
  /\ ev.out = "ok" /\ ev.ret = "false"
  /\ exitStatus = "running" /\ lastTrade = 0

\* C21: every invocation of tradeCycle eventually returns (or the process
\* exits): the cycle a helper revert awaits polls through the primary and is
\* no revert itself, a bursting cycle is never inside a burst loop of its own,
\* and the task of every slot, burst chain included, comes to its end.
C21_CyclesReturn ==
  /\ [](\A s \in Slots : \A i \in 1..Len(tasks[s]) :
          /\ tasks[s][i].pc = "recheck" =>
                /\ i < Len(tasks[s])
                /\ tasks[s][i + 1].isMain /\ tasks[s][i + 1].poller = 0
                /\ tasks[s][i + 1].pc # "recheck"
          /\ tasks[s][i].bursting => tasks[s][i].pc # "burst")
  /\ \A s \in Slots :
       (tasks[s] # <<>>) ~> (tasks[s] = <<>> \/ exitStatus = "nonzero")

====
